---- MODULE Spec2Model ----
(***************************************************************************)
(* Model of the Big Plump Bird enhancement pipeline:                       *)
(*   tools/enhance/analyze_audio.py  (analysis stage, writes the plan)     *)
(*   tools/enhance/process_audio.py  (processing stage, writes the audio)  *)
(* Signals are sequences of samples; a sample is <<id, num, den>>: the     *)
(* position it came from (0 for a padded zero) and the gain num/den the    *)
(* crossfades have applied to it.                                          *)
(***************************************************************************)
EXTENDS Integers, Sequences, FiniteSets, TLC

VARIABLES
    pc,             \* position in main()
    sr,             \* sample rate of the loaded signal
    regimes,        \* the regimes list (built by analysis / sorted by processing)
    \* ---- analyze_audio.py
    n_samples, min_silence_ms, max_regimes, duration_ms,
    speech, silence, sil_info, rms_vals, bkps, cps, plan,
    \* ---- process_audio.py
    audio, analysis, dereverb, fade_samples,
    cursor, i, segment, slices, processed, seg_metrics,
    ran, stderr, error, work_dir, enhanced, output, result

avars == <<n_samples, min_silence_ms, max_regimes, duration_ms,
           speech, silence, sil_info, rms_vals, bkps, cps, plan>>
pvars == <<audio, analysis, dereverb, fade_samples,
           cursor, i, segment, slices, processed, seg_metrics,
           ran, stderr, error, work_dir, enhanced, output, result>>
vars == <<pc, sr, regimes, avars, pvars>>

(***************************************************************************)
(* Bounds of the model.                                                    *)
(***************************************************************************)
MaxSamples == 7        \* longest signal given to the analysis stage
MaxSpeech == 3         \* most speech spans the VAD returns
MaxRegimesArg == 3     \* largest --max-regimes
MaxLen == 3            \* longest signal given to the processing stage
MaxPlan == 2           \* most regimes in a plan given to the processing stage
MaxDrift == 1          \* how far a transform's raw length is from its input's
MaxSegs == 3           \* most segments given to _join_segments on its own
MaxSegLen == 2         \* longest such segment
MaxFade == 2           \* largest crossfade length given to _join_segments on its own

SampleRates == {500, 2000}
MinSilenceMs == {0, 2, 4}
RmsLevels == {-40}

None == <<>>
Some(x) == <<x>>

Min(a, b) == IF a <= b THEN a ELSE b
Max(a, b) == IF a >= b THEN a ELSE b

Last(s) == s[Len(s)]

\* Python's seq[:k]
SliceTo(s, k) ==
    IF k >= 0 THEN SubSeq(s, 1, Min(k, Len(s)))
    ELSE SubSeq(s, 1, Max(Len(s) + k, 0))

\* int(x / rate * 1000) for x >= 0
ToMs(x, rate) == (x * 1000) \div rate

\* int(ms * rate / 1000): truncation towards zero
ToSamples(ms, rate) ==
    IF ms >= 0 THEN (ms * rate) \div 1000 ELSE -(((-ms) * rate) \div 1000)

(***************************************************************************)
(* analyze_audio.py                                                        *)
(***************************************************************************)

\* What get_speech_timestamps can return for a signal of n samples: at most
\* MaxSpeech non-empty, time-ordered, non-overlapping spans within [0, n).
RECURSIVE SpeechFrom(_, _, _)
SpeechFrom(lo, n, k) ==
    {<<>>} \cup
    (IF k = 0 THEN {}
     ELSE UNION { { <<[start |-> se[1], end |-> se[2]]>> \o rest :
                        rest \in SpeechFrom(se[2], n, k - 1) } :
                  se \in { p \in (lo..n) \X (lo..n) : p[1] < p[2] } })

VadOutputs(n) == SpeechFrom(0, n, MaxSpeech)

GapKeptStrict(gap, min_gap) == gap > min_gap

\* the test `... - prev >= min_gap` of _silence_spans
GapKept(gap, min_gap) == gap >= min_gap

RECURSIVE SilenceLoop(_, _, _, _)
SilenceLoop(rest, prev, min_gap, spans) ==
    IF rest = <<>> THEN [prev |-> prev, spans |-> spans]
    ELSE LET s == Head(rest)
             spans2 == IF GapKept(s.start - prev, min_gap)
                       THEN Append(spans, [start |-> prev, end |-> s.start])
                       ELSE spans
         IN SilenceLoop(Tail(rest), s.end, min_gap, spans2)

silence_spans(sp, total_samples, min_gap) ==
    LET r == SilenceLoop(sp, 0, min_gap, <<>>)
    IN IF GapKept(total_samples - r.prev, min_gap)
       THEN Append(r.spans, [start |-> r.prev, end |-> total_samples])
       ELSE r.spans

\* What ruptures' Pelt(...).predict can return for a sequence of n values:
\* strictly increasing breakpoints in 1..n, the last one being n.
RECURSIVE SortedSeq(_)
SortedSeq(S) ==
    IF S = {} THEN <<>>
    ELSE LET m == CHOOSE x \in S : \A y \in S : x <= y
         IN <<m>> \o SortedSeq(S \ {m})

PeltPredict(n) == { SortedSeq(S \cup {n}) : S \in SUBSET (1..(n - 1)) }

TruncateOneMore(c, k) == SliceTo(c, k)

\* cps[: max_regimes - 1]
Truncate(c, k) == SliceTo(c, k - 1)

detect_changepoints(vals, k, predicted) ==
    LET n == Len(vals)
    IN IF n < 4 THEN <<>>
       ELSE Truncate(SelectSeq(predicted, LAMBDA b : b < n), k)

AttenLimDb == 12
DefaultRecommended == [dereverb |-> FALSE, denoise |-> TRUE, atten_lim_db |-> AttenLimDb]

\* (s["start_ms"] + s["end_ms"]) // 2
Midpoint(s) == (s.start_ms + s.end_ms) \div 2

SpanStart(s) == s.start_ms

\* r_start of the group that starts at silence span s (not the first group)
RegimeStart(s) == Midpoint(s)

\* max(grp, key=lambda x: x["end_ms"] - x["start_ms"]): the first longest
BestRef(grp) ==
    LET best == CHOOSE k \in 1..Len(grp) :
                    /\ \A j \in 1..Len(grp) :
                          grp[j].end_ms - grp[j].start_ms <= grp[k].end_ms - grp[k].start_ms
                    /\ \A j \in 1..(k - 1) :
                          grp[j].end_ms - grp[j].start_ms < grp[k].end_ms - grp[k].start_ms
    IN grp[best]

RECURSIVE SumRms(_)
SumRms(grp) == IF grp = <<>> THEN 0 ELSE Head(grp).rms_db + SumRms(Tail(grp))

\* the loop over group_bounds in main(); gi is 0-based as in the source
RECURSIVE RegimeLoop(_, _, _, _, _)
RegimeLoop(gi, group_bounds, info, dur, acc) ==
    IF gi > Len(group_bounds) - 2 THEN acc
    ELSE LET g_start == group_bounds[gi + 1]
             g_end == group_bounds[gi + 2]
             grp == SubSeq(info, g_start + 1, g_end)
         IN IF grp = <<>> THEN RegimeLoop(gi + 1, group_bounds, info, dur, acc)
            ELSE LET r_start == IF gi = 0 THEN 0 ELSE RegimeStart(info[g_start + 1])
                     r_end == IF gi = Len(group_bounds) - 2 THEN dur
                              ELSE Midpoint(info[group_bounds[gi + 2] + 1])
                     best_ref == BestRef(grp)
                     reg == [index |-> gi,
                             start_ms |-> r_start,
                             end_ms |-> r_end,
                             noise_rms_db |-> <<SumRms(grp), Len(grp)>>,
                             noise_reference |->
                                 Some([start_ms |-> best_ref.start_ms,
                                       end_ms |-> best_ref.end_ms]),
                             recommended |-> DefaultRecommended]
                 IN RegimeLoop(gi + 1, group_bounds, info, dur, Append(acc, reg))

SyntheticRegime(dur) ==
    [index |-> 0, start_ms |-> 0, end_ms |-> dur,
     noise_rms_db |-> <<-100, 1>>,
     noise_reference |-> None,
     recommended |-> DefaultRecommended]

build_regimes_no_fallback(c, info, dur) ==
    RegimeLoop(0, <<0>> \o c \o <<Len(info)>>, info, dur, <<>>)

\* main(): group_bounds, the regime loop and the `if not regimes` fallback
build_regimes(c, info, dur) ==
    LET built == RegimeLoop(0, <<0>> \o c \o <<Len(info)>>, info, dur, <<>>)
    IN IF built = <<>> THEN <<SyntheticRegime(dur)>> ELSE built

PIdle ==
    /\ audio = <<>> /\ analysis = <<>> /\ dereverb = "auto" /\ fade_samples = 0
    /\ cursor = 0 /\ i = 0 /\ segment = <<>> /\ slices = <<>>
    /\ processed = <<>> /\ seg_metrics = <<>>
    /\ ran = <<>> /\ stderr = <<>> /\ error = None /\ work_dir = FALSE
    /\ enhanced = <<>> /\ output = None /\ result = None

\* main() up to the VAD call: arguments accepted, signal loaded
InitAnalyze ==
    /\ pc = "vad"
    /\ sr \in SampleRates
    /\ n_samples \in 0..MaxSamples
    /\ min_silence_ms \in MinSilenceMs
    /\ max_regimes \in 1..MaxRegimesArg
    /\ duration_ms = ToMs(n_samples, sr)
    /\ speech = <<>> /\ silence = <<>> /\ sil_info = <<>> /\ rms_vals = <<>>
    /\ bkps = <<>> /\ cps = <<>> /\ regimes = <<>> /\ plan = None
    /\ PIdle

RunVad ==
    /\ pc = "vad"
    /\ \E sp \in VadOutputs(n_samples) :
          /\ speech' = sp
          /\ silence' = silence_spans(sp, n_samples, ToSamples(min_silence_ms, sr))
    /\ pc' = "features"
    /\ UNCHANGED <<sr, regimes, n_samples, min_silence_ms, max_regimes, duration_ms,
                   sil_info, rms_vals, bkps, cps, plan, pvars>>

Features ==
    /\ pc = "features"
    /\ \E r \in [1..Len(silence) -> RmsLevels] :
          /\ rms_vals' = [k \in 1..Len(silence) |-> r[k]]
          /\ sil_info' = [k \in 1..Len(silence) |->
                            [start_ms |-> ToMs(silence[k].start, sr),
                             end_ms |-> ToMs(silence[k].end, sr),
                             rms_db |-> r[k]]]
    /\ pc' = "changepoints"
    /\ UNCHANGED <<sr, regimes, n_samples, min_silence_ms, max_regimes, duration_ms,
                   speech, silence, bkps, cps, plan, pvars>>

DetectChangepoints ==
    /\ pc = "changepoints"
    /\ \/ /\ Len(rms_vals) < 4
          /\ bkps' = <<>>
          /\ cps' = detect_changepoints(rms_vals, max_regimes, <<>>)
       \/ /\ Len(rms_vals) >= 4
          /\ \E b \in PeltPredict(Len(rms_vals)) :
                /\ bkps' = b
                /\ cps' = detect_changepoints(rms_vals, max_regimes, b)
    /\ pc' = "regimes"
    /\ UNCHANGED <<sr, regimes, n_samples, min_silence_ms, max_regimes, duration_ms,
                   speech, silence, sil_info, rms_vals, plan, pvars>>

BuildRegimes ==
    /\ pc = "regimes"
    /\ regimes' = build_regimes(cps, sil_info, duration_ms)
    /\ pc' = "write"
    /\ UNCHANGED <<sr, avars, pvars>>

WritePlan ==
    /\ pc = "write"
    /\ plan' = Some([duration_ms |-> duration_ms,
                     sample_rate |-> sr,
                     regime_count |-> Len(regimes),
                     regimes |-> regimes,
                     silence_spans |-> [k \in 1..Len(sil_info) |->
                                          [start_ms |-> sil_info[k].start_ms,
                                           end_ms |-> sil_info[k].end_ms]],
                     speech_spans |-> [k \in 1..Len(speech) |->
                                          [start_ms |-> ToMs(speech[k].start, sr),
                                           end_ms |-> ToMs(speech[k].end, sr)]]])
    /\ pc' = "written"
    /\ UNCHANGED <<sr, regimes, n_samples, min_silence_ms, max_regimes, duration_ms,
                   speech, silence, sil_info, rms_vals, bkps, cps, pvars>>

NextAnalyze == RunVad \/ Features \/ DetectChangepoints \/ BuildRegimes \/ WritePlan

SpecAnalyze == InitAnalyze /\ [][NextAnalyze]_vars

(***************************************************************************)
(* process_audio.py                                                        *)
(***************************************************************************)

original_len == Len(audio)

Zero == <<0, 1, 1>>
Zeros(n) == [k \in 1..n |-> Zero]

\* Python's round(): num/den to the nearest integer, ties to even (den > 0)
RoundHalfEven(num, den) ==
    LET q == num \div den
        twice == 2 * (num - q * den)
    IN IF twice < den THEN q
       ELSE IF twice > den THEN q + 1
       ELSE IF q % 2 = 0 THEN q ELSE q + 1

\* Python's a[lo:hi] for lo >= 0
PySlice(a, lo, hi) ==
    LET h == Min(Max(hi, 0), Len(a))
    IN IF lo >= h THEN <<>> ELSE SubSeq(a, lo + 1, h)

\* the shared tail of _apply_wpe and _apply_deepfilter: keep the segment's length
PadOrTrim(x, n) ==
    IF Len(x) > n THEN SubSeq(x, 1, n)
    ELSE IF Len(x) < n THEN x \o Zeros(n - Len(x))
    ELSE x

\* what a transform hands back before its length is enforced: raw samples
TransformRaw(seg, raw) ==
    [k \in 1..raw |-> IF k <= Len(seg) THEN seg[k] ELSE Zero]

RawLens(n) == { r \in (n - MaxDrift)..(n + MaxDrift) : r >= 0 }

apply_wpe(seg, raw) == PadOrTrim(TransformRaw(seg, raw), Len(seg))

apply_deepfilter(seg, raw) == PadOrTrim(TransformRaw(seg, raw), Len(seg))

Scale(s, a, b) == <<s[1], s[2] * a, s[3] * b>>

JoinFoldOverlap(out, seg, fade) ==
    LET n == Min(fade, Min(Len(out), Len(seg)))
    IN SubSeq(out, 1, Len(out) - n) \o seg

\* one iteration of the loop of _join_segments
JoinFold(out, seg, fade) ==
    LET n == Min(fade, Min(Len(out), Len(seg)))
        keep == Len(out) - n
        o2 == [k \in 1..Len(out) |->
                 IF k > keep THEN Scale(out[k], n - (k - keep - 1), n) ELSE out[k]]
        s2 == [k \in 1..Len(seg) |->
                 IF k <= n THEN Scale(seg[k], k - 1, n) ELSE seg[k]]
    IN o2 \o s2

RECURSIVE JoinRest(_, _, _)
JoinRest(out, rest, fade) ==
    IF rest = <<>> THEN out
    ELSE JoinRest(JoinFold(out, Head(rest), fade), Tail(rest), fade)

join_segments(segs, fade) ==
    IF segs = <<>> THEN <<>>
    ELSE IF Len(segs) = 1 THEN segs[1]
    ELSE JoinRest(segs[1], Tail(segs), fade)

FitLengthShort(x, n) ==
    IF Len(x) >= n /\ n > 0 THEN SubSeq(x, 1, n - 1)
    ELSE IF Len(x) < n THEN x \o Zeros(n - Len(x))
    ELSE x

\* main(): clamp or zero-pad the joined signal to original_len
FitLength(x, n) ==
    IF Len(x) > n THEN SubSeq(x, 1, n)
    ELSE IF Len(x) < n THEN x \o Zeros(n - Len(x))
    ELSE x

KeyLE(a, b) ==
    \/ a.start_ms < b.start_ms
    \/ a.start_ms = b.start_ms /\ a.index <= b.index

RECURSIVE InsertSorted(_, _)
InsertSorted(r, s) ==
    IF s = <<>> THEN <<r>>
    ELSE IF KeyLE(Last(s), r) THEN Append(s, r)
    ELSE Append(InsertSorted(r, SubSeq(s, 1, Len(s) - 1)), Last(s))

\* sorted(regimes, key=lambda r: (start_ms, index)): stable
RECURSIVE SortRegimes(_)
SortRegimes(s) ==
    IF s = <<>> THEN <<>>
    ELSE InsertSorted(Last(s), SortRegimes(SubSeq(s, 1, Len(s) - 1)))

SliceEndNoLastRule(k, count, start, end_ms, rate, total) ==
    Max(start, Min(RoundHalfEven(end_ms * rate, 1000), total))

\* `end` of the slice of regime k (0-based) among count regimes
SliceEnd(k, count, start, end_ms, rate, total) ==
    IF k = count - 1 THEN total
    ELSE Max(start, Min(RoundHalfEven(end_ms * rate, 1000), total))

DoDereverbIgnoringOff(override, rec) == override = "on" \/ rec.dereverb

DoDereverb(override, rec) ==
    override = "on" \/ (override = "auto" /\ rec.dereverb)

DoDenoise(rec) == rec.denoise

\* the plans the processing stage is given: (start_ms, end_ms) pairs with an end
\* that rounds on a tie (5 ms at 500 Hz is 2.5 samples), a negative end that
\* sorts last, and an end beyond the signal
RegimeTimes == {<<0, 5>>, <<2, -3>>, <<0, 20>>}
OverlapMs == {-10, 2}
Overrides == {"off", "auto", "on"}

RegimeChoices ==
    { [start_ms |-> t[1], end_ms |-> t[2],
       recommended |-> [dereverb |-> dr, denoise |-> dn, atten_lim_db |-> AttenLimDb]] :
      t \in RegimeTimes, dr \in BOOLEAN, dn \in BOOLEAN }

WithIndex(r, k) ==
    [index |-> k, start_ms |-> r.start_ms, end_ms |-> r.end_ms,
     recommended |-> r.recommended]

Plans ==
    UNION { { [k \in 1..n |-> WithIndex(f[k], k - 1)] : f \in [1..n -> RegimeChoices] } :
            n \in 0..MaxPlan }

AIdle ==
    /\ n_samples = 0 /\ min_silence_ms = 0 /\ max_regimes = 1 /\ duration_ms = 0
    /\ speech = <<>> /\ silence = <<>> /\ sil_info = <<>> /\ rms_vals = <<>>
    /\ bkps = <<>> /\ cps = <<>> /\ plan = None

\* main() after argument parsing and sf.read
InitProcess ==
    /\ pc = "read"
    /\ sr \in SampleRates
    /\ \E n \in 0..MaxLen : audio = [p \in 1..n |-> <<p, 1, 1>>]
    /\ analysis \in Plans
    /\ dereverb \in Overrides
    /\ \E ms \in OverlapMs : fade_samples = Max(0, ToSamples(ms, sr))
    /\ regimes = <<>>
    /\ cursor = 0 /\ i = 0 /\ segment = <<>> /\ slices = <<>>
    /\ processed = <<>> /\ seg_metrics = <<>>
    /\ ran = <<>> /\ stderr = <<>> /\ error = None /\ work_dir = FALSE
    /\ enhanced = <<>> /\ output = None /\ result = None
    /\ AIdle

ReadPlan ==
    /\ pc = "read"
    /\ regimes' = SortRegimes(
           IF analysis = <<>>
           THEN <<[index |-> 0, start_ms |-> 0, end_ms |-> ToMs(original_len, sr),
                   recommended |-> DefaultRecommended]>>
           ELSE analysis)
    /\ work_dir' = TRUE
    /\ cursor' = 0 /\ i' = 0
    /\ pc' = "slice"
    /\ UNCHANGED <<sr, avars, audio, analysis, dereverb, fade_samples, segment, slices,
                   processed, seg_metrics, ran, stderr, error, enhanced, output, result>>

Slice ==
    /\ pc = "slice" /\ i < Len(regimes)
    /\ LET start == cursor
           end == SliceEnd(i, Len(regimes), start, regimes[i + 1].end_ms, sr, original_len)
           seg == PySlice(audio, start, end)
       IN /\ segment' = seg
          /\ cursor' = end
          /\ slices' = Append(slices, [start |-> start, end |-> end])
          /\ \/ /\ Len(seg) = 0
                /\ i' = i + 1
                /\ pc' = "slice"
             \/ /\ Len(seg) # 0
                /\ i' = i
                /\ pc' = "dereverb"
    /\ UNCHANGED <<sr, regimes, avars, audio, analysis, dereverb, fade_samples,
                   processed, seg_metrics, ran, stderr, error, work_dir, enhanced,
                   output, result>>

Progress(transform) == [regime |-> regimes[i + 1].index, transform |-> transform]
Invoked(transform) == [seg |-> i, transform |-> transform]

SkipDereverb ==
    /\ pc = "dereverb"
    /\ ~DoDereverb(dereverb, regimes[i + 1].recommended)
    /\ pc' = "denoise"
    /\ UNCHANGED <<sr, regimes, avars, pvars>>

Dereverb ==
    /\ pc = "dereverb"
    /\ DoDereverb(dereverb, regimes[i + 1].recommended)
    /\ stderr' = Append(stderr, Progress("dereverb"))
    /\ ran' = Append(ran, Invoked("dereverb"))
    /\ \E raw \in RawLens(Len(segment)) : segment' = apply_wpe(segment, raw)
    /\ pc' = "denoise"
    /\ UNCHANGED <<sr, regimes, avars, audio, analysis, dereverb, fade_samples, cursor, i,
                   slices, processed, seg_metrics, error, work_dir, enhanced, output, result>>

\* an exception out of _apply_wpe leaves main() through the TemporaryDirectory block
DereverbFail ==
    /\ pc = "dereverb"
    /\ DoDereverb(dereverb, regimes[i + 1].recommended)
    /\ stderr' = Append(stderr, Progress("dereverb"))
    /\ ran' = Append(ran, Invoked("dereverb"))
    /\ \E named \in SUBSET {"dereverb"} :
          error' = Some([kind |-> "exception", transform |-> named, seg |-> {}])
    /\ work_dir' = FALSE
    /\ pc' = "aborted"
    /\ UNCHANGED <<sr, regimes, avars, audio, analysis, dereverb, fade_samples, cursor, i,
                   segment, slices, processed, seg_metrics, enhanced, output, result>>

SkipDenoise ==
    /\ pc = "denoise"
    /\ ~DoDenoise(regimes[i + 1].recommended)
    /\ pc' = "record"
    /\ UNCHANGED <<sr, regimes, avars, pvars>>

Denoise ==
    /\ pc = "denoise"
    /\ DoDenoise(regimes[i + 1].recommended)
    /\ stderr' = Append(stderr, Progress("denoise"))
    /\ ran' = Append(ran, Invoked("denoise"))
    /\ \E raw \in RawLens(Len(segment)) : segment' = apply_deepfilter(segment, raw)
    /\ pc' = "record"
    /\ UNCHANGED <<sr, regimes, avars, audio, analysis, dereverb, fade_samples, cursor, i,
                   slices, processed, seg_metrics, error, work_dir, enhanced, output, result>>

DenoiseFailSwallowed ==
    /\ pc = "denoise"
    /\ DoDenoise(regimes[i + 1].recommended)
    /\ stderr' = Append(stderr, Progress("denoise"))
    /\ ran' = Append(ran, Invoked("denoise"))
    /\ error' = Some([kind |-> "exit", transform |-> {"denoise"}, seg |-> {}])
    /\ pc' = "record"
    /\ UNCHANGED <<sr, regimes, avars, audio, analysis, dereverb, fade_samples, cursor, i,
                   segment, slices, processed, seg_metrics, work_dir, enhanced, output,
                   result>>

\* deep-filter exits non-zero: RuntimeError("deep-filter failed (exit N): ...")
DenoiseFailExit ==
    /\ pc = "denoise"
    /\ DoDenoise(regimes[i + 1].recommended)
    /\ stderr' = Append(stderr, Progress("denoise"))
    /\ ran' = Append(ran, Invoked("denoise"))
    /\ error' = Some([kind |-> "exit", transform |-> {"denoise"}, seg |-> {}])
    /\ work_dir' = FALSE
    /\ pc' = "aborted"
    /\ UNCHANGED <<sr, regimes, avars, audio, analysis, dereverb, fade_samples, cursor, i,
                   segment, slices, processed, seg_metrics, enhanced, output, result>>

\* no output file: RuntimeError("deep-filter did not produce output at .../seg_<i>.wav")
DenoiseFailMissing ==
    /\ pc = "denoise"
    /\ DoDenoise(regimes[i + 1].recommended)
    /\ stderr' = Append(stderr, Progress("denoise"))
    /\ ran' = Append(ran, Invoked("denoise"))
    /\ error' = Some([kind |-> "missing", transform |-> {"denoise"}, seg |-> {i}])
    /\ work_dir' = FALSE
    /\ pc' = "aborted"
    /\ UNCHANGED <<sr, regimes, avars, audio, analysis, dereverb, fade_samples, cursor, i,
                   segment, slices, processed, seg_metrics, enhanced, output, result>>

Record ==
    /\ pc = "record"
    /\ LET regime == regimes[i + 1]
           sl == Last(slices)
       IN /\ processed' = Append(processed, segment)
          /\ seg_metrics' = Append(seg_metrics,
                [segment_index |-> regime.index,
                 start_ms |-> RoundHalfEven(sl.start * 1000, sr),
                 end_ms |-> RoundHalfEven(sl.end * 1000, sr),
                 dereverb_applied |-> DoDereverb(dereverb, regime.recommended),
                 denoise_applied |-> DoDenoise(regime.recommended),
                 atten_lim_db |-> regime.recommended.atten_lim_db])
    /\ i' = i + 1
    /\ pc' = "slice"
    /\ UNCHANGED <<sr, regimes, avars, audio, analysis, dereverb, fade_samples, cursor,
                   segment, slices, ran, stderr, error, work_dir, enhanced, output, result>>

\* the loop is over: the defensive tail, then the scratch directory is removed
EndLoop ==
    /\ pc = "slice" /\ i = Len(regimes)
    /\ processed' = IF cursor < original_len
                    THEN Append(processed, PySlice(audio, cursor, original_len))
                    ELSE processed
    /\ work_dir' = FALSE
    /\ pc' = "join"
    /\ UNCHANGED <<sr, regimes, avars, audio, analysis, dereverb, fade_samples, cursor, i,
                   segment, slices, seg_metrics, ran, stderr, error, enhanced, output,
                   result>>

WriteOutput ==
    /\ pc = "join"
    /\ enhanced' = FitLength(join_segments(processed, fade_samples), original_len)
    /\ output' = Some(enhanced')
    /\ pc' = "result"
    /\ UNCHANGED <<sr, regimes, avars, audio, analysis, dereverb, fade_samples, cursor, i,
                   segment, slices, processed, seg_metrics, ran, stderr, error, work_dir,
                   result>>

WriteResult ==
    /\ pc = "result"
    /\ result' = Some([duration_ms |-> ToMs(original_len, sr), segments |-> seg_metrics])
    /\ pc' = "done"
    /\ UNCHANGED <<sr, regimes, avars, audio, analysis, dereverb, fade_samples, cursor, i,
                   segment, slices, processed, seg_metrics, ran, stderr, error, work_dir,
                   enhanced, output>>

NextProcess ==
    \/ ReadPlan \/ Slice
    \/ SkipDereverb \/ Dereverb \/ DereverbFail
    \/ SkipDenoise \/ Denoise \/ DenoiseFailExit \/ DenoiseFailMissing
    \/ Record \/ EndLoop \/ WriteOutput \/ WriteResult

SpecProcess == InitProcess /\ [][NextProcess]_vars

(***************************************************************************)
(* _join_segments on its own, one loop iteration per step                  *)
(***************************************************************************)

SegmentOf(k, n) == [p \in 1..n |-> <<10 * k + p, 1, 1>>]

SegLists ==
    UNION { { [k \in 1..n |-> SegmentOf(k, f[k])] : f \in [1..n -> 0..MaxSegLen] } :
            n \in 0..MaxSegs }

InitJoin ==
    /\ pc = "join_call"
    /\ sr \in SampleRates
    /\ processed \in SegLists
    /\ fade_samples \in 0..MaxFade
    /\ regimes = <<>>
    /\ audio = <<>> /\ analysis = <<>> /\ dereverb = "auto"
    /\ cursor = 0 /\ i = 0 /\ segment = <<>> /\ slices = <<>> /\ seg_metrics = <<>>
    /\ ran = <<>> /\ stderr = <<>> /\ error = None /\ work_dir = FALSE
    /\ enhanced = <<>> /\ output = None /\ result = None
    /\ AIdle

JoinEmpty ==
    /\ pc = "join_call" /\ processed = <<>>
    /\ enhanced' = <<>>
    /\ pc' = "joined"
    /\ UNCHANGED <<sr, regimes, avars, audio, analysis, dereverb, fade_samples, cursor, i,
                   segment, slices, processed, seg_metrics, ran, stderr, error, work_dir,
                   output, result>>

JoinSingle ==
    /\ pc = "join_call" /\ Len(processed) = 1
    /\ enhanced' = processed[1]
    /\ pc' = "joined"
    /\ UNCHANGED <<sr, regimes, avars, audio, analysis, dereverb, fade_samples, cursor, i,
                   segment, slices, processed, seg_metrics, ran, stderr, error, work_dir,
                   output, result>>

JoinBegin ==
    /\ pc = "join_call" /\ Len(processed) > 1
    /\ enhanced' = processed[1]
    /\ i' = 1
    /\ pc' = "join_loop"
    /\ UNCHANGED <<sr, regimes, avars, audio, analysis, dereverb, fade_samples, cursor,
                   segment, slices, processed, seg_metrics, ran, stderr, error, work_dir,
                   output, result>>

JoinStep ==
    /\ pc = "join_loop" /\ i < Len(processed)
    /\ enhanced' = JoinFold(enhanced, processed[i + 1], fade_samples)
    /\ i' = i + 1
    /\ UNCHANGED <<pc, sr, regimes, avars, audio, analysis, dereverb, fade_samples, cursor,
                   segment, slices, processed, seg_metrics, ran, stderr, error, work_dir,
                   output, result>>

JoinReturn ==
    /\ pc = "join_loop" /\ i = Len(processed)
    /\ pc' = "joined"
    /\ UNCHANGED <<sr, regimes, avars, pvars>>

NextJoin == JoinEmpty \/ JoinSingle \/ JoinBegin \/ JoinStep \/ JoinReturn

SpecJoin == InitJoin /\ [][NextJoin]_vars

(***************************************************************************)
(* Properties                                                              *)
(***************************************************************************)

Range(s) == { s[k] : k \in 1..Len(s) }

RECURSIVE SumLen(_)
SumLen(segs) == IF segs = <<>> THEN 0 ELSE Len(Head(segs)) + SumLen(Tail(segs))

RECURSIVE Concat(_)
Concat(segs) == IF segs = <<>> THEN <<>> ELSE Head(segs) \o Concat(Tail(segs))

Ids(x) == [k \in 1..Len(x) |-> x[k][1]]

\* the positions (1-based) of the non-empty slices, in order
NonEmptySlices ==
    SelectSeq([p \in 1..Len(slices) |-> p], LAMBDA p : slices[p].start < slices[p].end)

LoopOver == pc \in {"join", "result", "done"}

\* C1: whenever the processing stage writes its output, the written signal has
\* exactly original_len samples, whatever the plan, the crossfade length and the
\* raw lengths the transforms came back with.
C1_OutputLength ==
    output # None => Len(output[1]) = original_len

\* C1 witness: an output was written from two or more segments joined with a
\* crossfade, one of them padded after a transform came back short.
C1_Witness ==
    /\ output # None
    /\ Len(processed) >= 2
    /\ fade_samples >= 1
    /\ \E k \in 1..Len(output[1]) : output[1][k][1] = 0

\* C2: every plan written starts at 0, ends at duration_ms and is contiguous.
C2_Contiguity ==
    plan # None =>
        LET r == plan[1].regimes
        IN /\ Len(r) >= 1
           /\ r[1].start_ms = 0
           /\ r[Len(r)].end_ms = plan[1].duration_ms
           /\ \A k \in 1..(Len(r) - 1) : r[k].end_ms = r[k + 1].start_ms

\* C2 witness: a written plan of three regimes whose inner boundaries are
\* midpoints of silence spans of non-zero length.
C2_Witness ==
    /\ plan # None
    /\ Len(plan[1].regimes) >= 3
    /\ \A k \in 1..Len(cps) :
          sil_info[cps[k] + 1].start_ms < sil_info[cps[k] + 1].end_ms

\* C3: the plan never holds more than max_regimes regimes: the change-points kept
\* are the solver's indices below the sequence length, in order, cut to at most
\* max_regimes - 1.
C3_RegimeCount ==
    /\ pc \in {"regimes", "write", "written"} =>
          LET real == SelectSeq(bkps, LAMBDA b : b # Len(rms_vals))
          IN /\ Len(cps) <= max_regimes - 1
             /\ Len(cps) = Min(Len(real), max_regimes - 1)
             /\ \A k \in 1..Len(cps) : cps[k] = real[k]
             /\ \A k \in 1..Len(cps) : cps[k] # Len(rms_vals)
    /\ pc \in {"write", "written"} => Len(regimes) <= max_regimes
    /\ plan # None => Len(plan[1].regimes) <= max_regimes

\* C3 witness: the solver returned more real change-points than max_regimes - 1
\* and the written plan holds exactly max_regimes >= 2 regimes.
C3_Witness ==
    /\ plan # None
    /\ max_regimes >= 2
    /\ Len(bkps) - 1 > max_regimes - 1
    /\ Len(plan[1].regimes) = max_regimes

C5_AbortIsFinal ==
    /\ [](error # None => (pc = "aborted" /\ output = None /\ result = None /\ ~work_dir))
    /\ [][error # None =>
            UNCHANGED <<pc, i, cursor, segment, processed, seg_metrics, ran,
                        enhanced, output, result>>]_vars

\* C5 witness: a transform failed while a later regime was still to be processed.
C5_Witness ==
    /\ error # None
    /\ pc = "aborted"
    /\ i + 1 < Len(regimes)

\* C6: per recorded segment, dereverb ran iff the override is "on" or it is "auto"
\* and the regime recommends it; denoise ran iff the regime recommends it; the
\* recorded flags are the transforms run; no transform runs that should not.
C6_TransformSelection ==
    /\ Len(seg_metrics) <= Len(NonEmptySlices)
    /\ \A k \in 1..Len(seg_metrics) :
          LET p == NonEmptySlices[k]
              rec == regimes[p].recommended
              m == seg_metrics[k]
          IN /\ m.dereverb_applied =
                    (dereverb = "on" \/ (dereverb = "auto" /\ rec.dereverb))
             /\ m.denoise_applied = rec.denoise
             /\ m.dereverb_applied = ([seg |-> p - 1, transform |-> "dereverb"] \in Range(ran))
             /\ m.denoise_applied = ([seg |-> p - 1, transform |-> "denoise"] \in Range(ran))
    /\ \A e \in Range(ran) :
          LET rec == regimes[e.seg + 1].recommended
          IN /\ e.transform = "dereverb" =>
                    (dereverb = "on" \/ (dereverb = "auto" /\ rec.dereverb))
             /\ e.transform = "denoise" => rec.denoise
    /\ dereverb = "off" => \A e \in Range(ran) : e.transform # "dereverb"

\* C6 witness: a finished run under override "off" that recorded a segment whose
\* regime recommends dereverb, denoised but not dereverberated.
C6_Witness ==
    /\ pc = "done"
    /\ dereverb = "off"
    /\ \E k \in 1..Len(seg_metrics) :
          /\ regimes[NonEmptySlices[k]].recommended.dereverb
          /\ ~seg_metrics[k].dereverb_applied
          /\ seg_metrics[k].denoise_applied

\* C7 as stated: the error that ends the run names the segment being processed
\* and the transform that failed.
C7_ErrorNamesRegimeAndTransform ==
    error # None =>
        /\ error[1].seg = {i}
        /\ error[1].transform = {Last(ran).transform}

\* C8: the slices partition [0, original_len): each starts where the previous one
\* ended, 0 <= start <= end <= original_len, the cursor is the last end, and once
\* the loop is over the cursor is original_len and no remainder was appended.
C8_SlicesPartition ==
    /\ \A k \in 1..Len(slices) :
          /\ slices[k].start = (IF k = 1 THEN 0 ELSE slices[k - 1].end)
          /\ 0 <= slices[k].start
          /\ slices[k].start <= slices[k].end
          /\ slices[k].end <= original_len
    /\ cursor = (IF slices = <<>> THEN 0 ELSE Last(slices).end)
    /\ LoopOver =>
          /\ Len(slices) = Len(regimes)
          /\ Len(slices) >= 1
          /\ Last(slices).end = original_len
          /\ cursor = original_len
          /\ Len(processed) = Len(NonEmptySlices)
          /\ SumLen(processed) = original_len

\* C8 witness: the loop is over after an empty slice was skipped and an end_ms
\* beyond the signal was clamped.
C8_Witness ==
    /\ pc = "join"
    /\ Len(slices) >= 2
    /\ original_len > 0
    /\ \E k \in 1..Len(slices) : slices[k].start = slices[k].end
    /\ \E k \in 1..(Len(regimes) - 1) :
          RoundHalfEven(regimes[k].end_ms * sr, 1000) > original_len

\* C9, the states of the fold: the output is the segments'
\* samples in order, zero segments give the empty output, one segment is returned
\* unchanged, and each join attenuates exactly the last n samples of the output so
\* far and the first n of the next segment, n = min(fade, len(out), len(next)).
C9_JoinState ==
    /\ pc = "join_loop" =>
          Ids(enhanced) = Ids(Concat(SubSeq(processed, 1, i)))
    /\ pc = "joined" =>
          /\ Ids(enhanced) = Ids(Concat(processed))
          /\ Len(enhanced) = SumLen(processed)
          /\ processed = <<>> => enhanced = <<>>
          /\ Len(processed) = 1 => enhanced = processed[1]
          /\ fade_samples = 0 => enhanced = Concat(processed)

\* C9, one iteration of the fold
C9_JoinStep ==
    (pc = "join_loop" /\ i' = i + 1) =>
        LET seg == processed[i + 1]
            n == Min(fade_samples, Min(Len(enhanced), Len(seg)))
            keep == Len(enhanced) - n
        IN /\ Len(enhanced') = Len(enhanced) + Len(seg)
           /\ \A k \in 1..keep : enhanced'[k] = enhanced[k]
           /\ \A k \in (n + 1)..Len(seg) : enhanced'[Len(enhanced) + k] = seg[k]
           /\ \A j \in 0..(n - 1) :
                 /\ enhanced'[keep + 1 + j] = Scale(enhanced[keep + 1 + j], n - j, n)
                 /\ enhanced'[Len(enhanced) + 1 + j] = Scale(seg[j + 1], j, n)

\* C9: the join keeps every sample, at every state of the fold and at every step
\* of it (C9_JoinState always, C9_JoinStep at each iteration).
C9_JoinKeepsSamples == []C9_JoinState /\ [][C9_JoinStep]_vars

\* C9 witness: three or more segments were joined, one of them empty and one
\* shorter than the crossfade.
C9_Witness ==
    /\ pc = "joined"
    /\ Len(processed) >= 3
    /\ \E k \in 1..Len(processed) : processed[k] = <<>>
    /\ \E k \in 1..Len(processed) : 0 < Len(processed[k]) /\ Len(processed[k]) < fade_samples

\* the gaps around the speech spans, leading and trailing ones included
Gaps ==
    [k \in 1..(Len(speech) + 1) |->
        [start |-> IF k = 1 THEN 0 ELSE speech[k - 1].end,
         end |-> IF k = Len(speech) + 1 THEN n_samples ELSE speech[k].start]]

\* C10: the silence spans are exactly the gaps of length >= min_gap, in order;
\* they are time-ordered, disjoint from each other and from every speech span, and
\* two consecutive ones have a speech span between them; no speech gives at most
\* the single span [0, total_samples).
C10_SilenceSpans ==
    pc # "vad" =>
        LET min_gap == ToSamples(min_silence_ms, sr)
        IN /\ silence = SelectSeq(Gaps, LAMBDA g : g.end - g.start >= min_gap)
           /\ \A k \in 1..(Len(silence) - 1) : silence[k].end <= silence[k + 1].start
           /\ \A k \in 1..Len(silence) : silence[k].start <= silence[k].end
           /\ \A k \in 1..Len(silence) : \A j \in 1..Len(speech) :
                 silence[k].end <= speech[j].start \/ speech[j].end <= silence[k].start
           /\ \A k \in 1..(Len(silence) - 1) : \E j \in 1..Len(speech) :
                 silence[k].end <= speech[j].start /\ speech[j].end <= silence[k + 1].start
           /\ speech = <<>> =>
                 /\ Len(silence) <= 1
                 /\ Len(silence) = 1 => silence[1] = [start |-> 0, end |-> n_samples]

\* C10 witness: two or more silence spans were emitted and a shorter gap, of
\* non-zero length, was dropped.
C10_Witness ==
    /\ pc # "vad"
    /\ Len(silence) >= 2
    /\ \E k \in 1..Len(Gaps) :
          /\ Gaps[k].end - Gaps[k].start > 0
          /\ Gaps[k].end - Gaps[k].start < ToSamples(min_silence_ms, sr)

====
